---- MODULE Spec2Model ----
(***************************************************************************)
(* Model of rain_prediction_ml.py: the weighted rain scorer                *)
(* (RainPredictionModel), the PM2.5 converter (AQICigaretteConverter) and  *)
(* the Flask routes that use the two shared instances.                     *)
(*                                                                         *)
(* Numbers.  The program computes with Python floats.  The model computes  *)
(* with exact decimal fixed point:                                         *)
(*   - an input value v (percent, mm, mb, ug/m3) is the integer 100 * v;   *)
(*   - a weight w is the integer 100 * w;                                  *)
(*   - a score or probability p is the integer 10000 * p (input x weight). *)
(* round(x, 1) and round(x) are round-half-to-even on the exact value.     *)
(* The input sets below hold values on which the float program and the     *)
(* exact model return the same results.                                    *)
(*                                                                         *)
(* Dictionaries.  A dict is a function whose DOMAIN is its set of keys.    *)
(* A numeric value v is the one-element sequence <<v>>; the Python value   *)
(* None is the empty sequence <<>>.                                        *)
(***************************************************************************)
EXTENDS Integers, Sequences, FiniteSets, TLC

VARIABLES
    weights,          \* rain_model.weights, the shared instance's dict
    weather_params,   \* the argument of calculate_rain_score
    calc_outcome,     \* "none" before the call, then "returned" or "raised"
    score,            \* value returned by calculate_rain_score
    day_data,         \* the argument of predict
    pred_outcome,     \* "none" before the call, then "returned" or "raised"
    rain_probability, \* predict's local rain_probability, before rounding
    result,           \* the tuple returned by predict, as a record
    aqi_call,         \* the last pm25_to_aqi call: argument and return value
    aqi_prev,         \* the pm25_to_aqi call before it
    conv_call,        \* the last call of any converter method (SpecConv)
    conv_prev,        \* the converter call before it
    pc,               \* position of the request being handled (Spec)
    request,          \* its route and query parameters
    query,            \* the q parameter of its upstream call
    fetches,          \* upstream requests.get calls made for it
    upstream,         \* how its requests.get call ended, "none" before it
    forecast_days,    \* days of the upstream forecast not yet processed
    overall_will_rain, \* the handler's local of that name
    max_rain_prob,    \* the handler's local of that name
    predictions,      \* the handler's list of per-day results
    air,              \* air-quality values computed by /rain-forecast
    response,         \* the response sent for it
    threads,          \* per worker thread, its call on the shared instances
    equiv             \* a forecast list and what each handler's loop makes of it

rainVars == <<weather_params, calc_outcome, score, day_data, pred_outcome,
              rain_probability, result>>

aqiVars == <<aqi_call, aqi_prev, conv_call, conv_prev>>

appVars == <<pc, request, query, fetches, upstream, forecast_days, overall_will_rain,
             max_rain_prob, predictions, air, response>>

vars == <<weights, rainVars, aqiVars, appVars, threads, equiv>>

----------------------------------------------------------------------------
(* Units *)

\* n percent (or n mm, n mb) as an input value
Hd(n) == n * 100

\* n percent as a score
Pct(n) == n * 10000

None == <<>>

\* the dict {}
EmptyDict == [k \in {} |-> None]

Num(v) == v[1]

Min(a, b) == IF a < b THEN a ELSE b

Max(a, b) == IF a > b THEN a ELSE b

\* Python round(x / unit): x is rounded to a multiple of unit, ties to even
RoundHalfEven(x, unit) ==
    LET q == x \div unit
        r == x % unit
    IN  IF 2 * r > unit \/ (2 * r = unit /\ q % 2 = 1)
        THEN (q + 1) * unit
        ELSE q * unit

\* round(rain_probability, 1) on a score
Round1(x) == RoundHalfEven(x, 1000)

----------------------------------------------------------------------------
(* RainPredictionModel *)

\* RainPredictionModel.__init__
InitWeights ==
    [chance_of_rain |-> 35, humidity |-> 20, precipitation |-> 25,
     cloud_cover |-> 10, pressure |-> 10]

\* humidity_score with inclusive thresholds
humidity_score_inclusive(humidity) ==
    IF humidity >= Hd(80) THEN Hd(100)
    ELSE IF humidity >= Hd(70) THEN Hd(75)
    ELSE IF humidity >= Hd(60) THEN Hd(50)
    ELSE Hd(25)

humidity_score(humidity) ==
    IF humidity > Hd(80) THEN Hd(100)
    ELSE IF humidity > Hd(70) THEN Hd(75)
    ELSE IF humidity > Hd(60) THEN Hd(50)
    ELSE Hd(25)

\* precip_score on a scale where 10 mm, not 5 mm, is 100%
precip_score_10mm(precip) == Min(Hd(100), precip * 10)

precip_score(precip) == Min(Hd(100), precip * 20)

\* cloud_score with 0, not 20, for a cloud cover of at most 50
cloud_score_clear_is_zero(cloud) ==
    IF cloud > Hd(75) THEN Hd(100)
    ELSE IF cloud > Hd(50) THEN Hd(60)
    ELSE 0

cloud_score(cloud) ==
    IF cloud > Hd(75) THEN Hd(100)
    ELSE IF cloud > Hd(50) THEN Hd(60)
    ELSE Hd(20)

\* pressure_score with the tiers in the opposite order: the higher the
\* pressure, the higher the score
pressure_score_rising(pressure) ==
    IF pressure < Hd(1000) THEN Hd(10)
    ELSE IF pressure < Hd(1010) THEN Hd(40)
    ELSE IF pressure < Hd(1015) THEN Hd(70)
    ELSE Hd(100)

pressure_score(pressure) ==
    IF pressure < Hd(1000) THEN Hd(100)
    ELSE IF pressure < Hd(1010) THEN Hd(70)
    ELSE IF pressure < Hd(1015) THEN Hd(40)
    ELSE Hd(10)

\* the sub-score of indicator k, before weighting
sub_score(k, v) ==
    CASE k = "chance_of_rain" -> v
      [] k = "humidity"       -> humidity_score(v)
      [] k = "precipitation"  -> precip_score(v)
      [] k = "cloud_cover"    -> cloud_score(v)
      [] k = "pressure"       -> pressure_score(v)

Indicators == {"chance_of_rain", "humidity", "precipitation", "cloud_cover", "pressure"}

\* score_term with an absent indicator defaulted as predict defaults it
score_term_defaulted(w, wp, k) ==
    LET default == [chance_of_rain |-> 0, humidity |-> Hd(50), precipitation |-> 0,
                    cloud_cover |-> Hd(50), pressure |-> Hd(1013)]
    IN  sub_score(k, IF k \in DOMAIN wp THEN Num(wp[k]) ELSE default[k]) * w[k]

\* the entry calculate_rain_score appends to scores for indicator k,
\* 0 when the key is not in weather_params
score_term(w, wp, k) ==
    IF k \in DOMAIN wp THEN sub_score(k, Num(wp[k])) * w[k] ELSE 0

\* sum(scores)
total_score(w, wp) ==
    score_term(w, wp, "chance_of_rain") + score_term(w, wp, "humidity")
    + score_term(w, wp, "precipitation") + score_term(w, wp, "cloud_cover")
    + score_term(w, wp, "pressure")

\* min(100, max(0, total_score))
clamp_score(t) == Min(Pct(100), Max(0, t))

\* a present key whose value is None makes the arithmetic or the
\* comparison on it raise TypeError
calculate_rain_score_raises(wp) ==
    \E k \in DOMAIN wp \cap Indicators : wp[k] = None

\* calculate_rain_score without the cap on the precipitation sub-score and
\* without the final clamp
calculate_rain_score_unbounded(w, wp) ==
    total_score(w, wp)
    + (IF "precipitation" \in DOMAIN wp
       THEN (Num(wp["precipitation"]) * 20 - precip_score(Num(wp["precipitation"])))
            * w["precipitation"]
       ELSE 0)

calculate_rain_score(w, wp) == clamp_score(total_score(w, wp))

\* day_data.get(key, default)
Get(d, key, default) == IF key \in DOMAIN d THEN d[key] ELSE <<default>>

\* predict with every default of day_data.get set to 0
predict_params_zero_defaults(dd) ==
    [chance_of_rain |-> Get(dd, "daily_chance_of_rain", 0),
     humidity       |-> Get(dd, "avghumidity", 0),
     precipitation  |-> Get(dd, "totalprecip_mm", 0),
     cloud_cover    |-> Get(dd, "cloud", 0),
     pressure       |-> Get(dd, "pressure_mb", 0)]

\* predict: the params dict handed to calculate_rain_score
predict_params(dd) ==
    [chance_of_rain |-> Get(dd, "daily_chance_of_rain", 0),
     humidity       |-> Get(dd, "avghumidity", Hd(50)),
     precipitation  |-> Get(dd, "totalprecip_mm", 0),
     cloud_cover    |-> Get(dd, "cloud", Hd(50)),
     pressure       |-> Get(dd, "pressure_mb", Hd(1013))]

\* predict: will_rain = rain_probability >= 50
will_rain_of(p) == p >= Pct(50)

\* the tier rule with strict comparisons, as /model-info words it
confidence_of_strict(p) ==
    IF p > Pct(80) \/ p < Pct(20) THEN <<"High", 90>>
    ELSE IF p > Pct(65) \/ p < Pct(35) THEN <<"Medium", 70>>
    ELSE <<"Low", 50>>

\* predict: the confidence tier of the unrounded rain_probability
confidence_of(p) ==
    IF p >= Pct(80) \/ p <= Pct(20) THEN <<"High", 90>>
    ELSE IF p >= Pct(65) \/ p <= Pct(35) THEN <<"Medium", 70>>
    ELSE <<"Low", 50>>

\* predict: the returned tuple for a rain_probability p
predict_result(p) ==
    [will_rain          |-> will_rain_of(p),
     confidence         |-> confidence_of(p)[1],
     probability        |-> Round1(p),
     confidence_percent |-> confidence_of(p)[2]]

predict_raises(dd) == calculate_rain_score_raises(predict_params(dd))

predict(w, dd) == predict_result(calculate_rain_score(w, predict_params(dd)))

\* model_info: the tiers that "confidence_calculation" publishes for a
\* probability p ("High": >80% or <20%, "Medium": 65-80% or 20-35%,
\* "Low": 35-65%), the ends of a range a-b taken as belonging to it
confidence_calculation(p) ==
    (IF p > Pct(80) \/ p < Pct(20) THEN {"High"} ELSE {})
    \cup (IF \/ (Pct(65) <= p /\ p <= Pct(80))
              \/ (Pct(20) <= p /\ p <= Pct(35)) THEN {"Medium"} ELSE {})
    \cup (IF Pct(35) <= p /\ p <= Pct(65) THEN {"Low"} ELSE {})

----------------------------------------------------------------------------
(* AQICigaretteConverter *)

\* pm25_to_aqi: the EPA breakpoints (pm_low, pm_high, aqi_low, aqi_high)
breakpoints ==
    << <<0, 1200, 0, 50>>,
       <<1210, 3540, 51, 100>>,
       <<3550, 5540, 101, 150>>,
       <<5550, 15040, 151, 200>>,
       <<15050, 25040, 201, 300>>,
       <<25050, 50040, 301, 500>> >>

\* interpolate with int(aqi), which truncates, in place of round(aqi)
interpolate_truncating(bp, pm) ==
    LET d == bp[2] - bp[1]
    IN  ((bp[4] - bp[3]) * (pm - bp[1]) + bp[3] * d) \div d

\* pm25_to_aqi: round(aqi) of the linear interpolation in bracket bp
interpolate(bp, pm) ==
    LET pm_low == bp[1]
        pm_high == bp[2]
        aqi_low == bp[3]
        aqi_high == bp[4]
        d == pm_high - pm_low
    IN  RoundHalfEven((aqi_high - aqi_low) * (pm - pm_low) + aqi_low * d, d) \div d

\* pm_low <= pm25 <= pm_high
in_bracket(bp, pm) == bp[1] <= pm /\ pm <= bp[2]

RECURSIVE aqi_from(_, _)
\* pm25_to_aqi: the for loop from bracket i on, and the fall-through return
aqi_from(i, pm) ==
    IF i > Len(breakpoints) THEN 500
    ELSE IF in_bracket(breakpoints[i], pm) THEN interpolate(breakpoints[i], pm)
    ELSE aqi_from(i + 1, pm)

\* pm25_to_aqi with the guard reduced to `pm25 is None`
pm25_to_aqi_unguarded(pm25) ==
    IF pm25 = None THEN 0 ELSE aqi_from(1, Num(pm25))

pm25_to_aqi(pm25) ==
    IF pm25 = None \/ Num(pm25) < 0 THEN 0 ELSE aqi_from(1, Num(pm25))

\* pm25_to_cigarettes dividing by 20, the cigarettes of a pack, not by 22
pm25_to_cigarettes_per_pack(pm25) ==
    IF pm25 = None \/ Num(pm25) = 0 THEN 0
    ELSE RoundHalfEven(Num(pm25), 200) \div 200

\* pm25_to_cigarettes: 10 x the cigarettes per day (one decimal).  On an
\* exact tie the float quotient decides: 12.1 / 22 is just below 0.55 and
\* the program returns 0.5; the arguments used below are not ties.
pm25_to_cigarettes(pm25) ==
    IF pm25 = None \/ Num(pm25) = 0 THEN 0
    ELSE RoundHalfEven(Num(pm25), 220) \div 220

\* aqi_to_category comparing with `<`, not `<=`
aqi_to_category_exclusive(aqi) ==
    IF aqi < 50 THEN "Good"
    ELSE IF aqi < 100 THEN "Moderate"
    ELSE IF aqi < 150 THEN "Unhealthy for Sensitive Groups"
    ELSE IF aqi < 200 THEN "Unhealthy"
    ELSE IF aqi < 300 THEN "Very Unhealthy"
    ELSE "Hazardous"

\* aqi_to_category: the level of the returned dict
aqi_to_category(aqi) ==
    IF aqi <= 50 THEN "Good"
    ELSE IF aqi <= 100 THEN "Moderate"
    ELSE IF aqi <= 150 THEN "Unhealthy for Sensitive Groups"
    ELSE IF aqi <= 200 THEN "Unhealthy"
    ELSE IF aqi <= 300 THEN "Very Unhealthy"
    ELSE "Hazardous"

----------------------------------------------------------------------------
(* Inputs of the core functions *)

ChanceValues == {<<0>>, <<5710>>, <<Hd(100)>>, <<Hd(200)>>}

HumidityValues == {<<Hd(60)>>, <<Hd(70)>>, <<Hd(80)>>, <<Hd(85)>>}

PrecipValues == {<<0 - Hd(1)>>, <<0>>, <<240>>, <<499>>, <<Hd(5)>>, <<Hd(12)>>}

CloudValues == {<<Hd(50)>>, <<Hd(75)>>, <<Hd(76)>>}

PressureValues == {<<Hd(999)>>, <<Hd(1000)>>, <<Hd(1010)>>, <<Hd(1015)>>}

\* the dict over the keys present, with the chosen values
MkDict(present, vals) == [k \in present |-> vals[k]]

\* predict's key for each indicator
DayKey ==
    [chance_of_rain |-> "daily_chance_of_rain", humidity |-> "avghumidity",
     precipitation |-> "totalprecip_mm", cloud_cover |-> "cloud",
     pressure |-> "pressure_mb"]

\* the day_data dict that holds the entries of weather_params wp under
\* predict's keys
AsDayData(wp) ==
    [dk \in {DayKey[k] : k \in DOMAIN wp} |->
        wp[CHOOSE k \in DOMAIN wp : DayKey[k] = dk]]

NoResult ==
    [will_rain |-> FALSE, confidence |-> "", probability |-> 0,
     confidence_percent |-> 0]

\* PM2.5 arguments: None, negative values, the ends of every bracket, the
\* middle of every gap between two brackets, values inside the brackets and
\* values above the table
Pm25Values ==
    {None, <<0 - Hd(1)>>, <<0>>, <<600>>, <<1200>>, <<1205>>, <<1210>>,
     <<Hd(22)>>, <<3540>>, <<3545>>, <<3550>>, <<Hd(45)>>, <<5540>>, <<5545>>,
     <<5550>>, <<Hd(100)>>, <<15040>>, <<15045>>, <<15050>>, <<Hd(200)>>,
     <<25040>>, <<25045>>, <<25050>>, <<Hd(400)>>, <<50040>>, <<50041>>,
     <<Hd(600)>>, <<0 - Hd(22)>>}

\* arguments of pm25_to_cigarettes: the same values without 12.1, the tie
\* on which the float quotient decides
CigarettePm25Values == Pm25Values \ {<<1210>>}

\* arguments of aqi_to_category: both sides of every threshold, values
\* inside the bands, the ends of the AQI scale and one value beyond each end
AqiValues ==
    {<<0 - 1>>, <<0>>, <<25>>, <<50>>, <<51>>, <<72>>, <<100>>, <<101>>,
     <<150>>, <<151>>, <<200>>, <<201>>, <<300>>, <<301>>, <<500>>, <<501>>}

NoCall == [called |-> FALSE, pm25 |-> None, aqi |-> 0]

\* no converter call yet; num is a numeric return value, level the level of
\* a returned category dict
NoConvCall == [fn |-> "", arg |-> None, num |-> 0, level |-> ""]

AqiIdle ==
    /\ aqi_call = NoCall /\ aqi_prev = NoCall
    /\ conv_call = NoConvCall /\ conv_prev = NoConvCall

RainIdle ==
    /\ weather_params = EmptyDict /\ day_data = EmptyDict
    /\ calc_outcome = "none" /\ score = 0
    /\ pred_outcome = "none" /\ rain_probability = 0 /\ result = NoResult

NoRequest == [route |-> "", city |-> None, lat |-> None, lon |-> None]

NoAir == [aqi_data |-> EmptyDict, pm25 |-> None, calculated_aqi |-> 0, level |-> "",
          cigarettes_per_day |-> 0, yearly_cigs |-> 0]

\* will_rain, max_rain_probability, days_with_rain and recommendation are
\* the summary of a forecast response
NoResponse ==
    [status |-> 0, body |-> "", will_rain |-> FALSE, max_rain_probability |-> 0,
     days_with_rain |-> 0, recommendation |-> ""]

AppIdle ==
    /\ pc = "idle" /\ request = NoRequest /\ query = None /\ fetches = 0
    /\ upstream = "none"
    /\ forecast_days = <<>> /\ overall_will_rain = FALSE /\ max_rain_prob = 0
    /\ predictions = <<>> /\ air = NoAir /\ response = NoResponse

\* the worker threads of the server
Threads == {1, 2}

\* a thread that is in no call: pc is "idle", "scoring" (inside
\* calculate_rain_score, called by predict) or "returned"; i counts the
\* indicators the call has scored, scores is its local list
NoThreadCall ==
    [pc |-> "idle", fn |-> "", day_data |-> EmptyDict, pm25 |-> None,
     params |-> EmptyDict, i |-> 0, scores |-> <<>>, result |-> NoResult,
     aqi |-> 0]

ThreadsIdle == threads = [t \in Threads |-> NoThreadCall]

\* what a handler's loop makes of a forecast list, before the loop ran
NoSummary ==
    [ran |-> FALSE, error |-> FALSE, predictions |-> <<>>,
     overall_will_rain |-> FALSE, max_rain_prob |-> 0, recommendation |-> ""]

EquivIdle == equiv = [days |-> <<>>, json |-> NoSummary, page |-> NoSummary]

----------------------------------------------------------------------------
(* SpecRain: the core functions of RainPredictionModel applied to an input *)

InitRain ==
    /\ weights = InitWeights
    /\ AqiIdle
    /\ AppIdle
    /\ ThreadsIdle
    /\ EquivIdle
    /\ \E present \in SUBSET Indicators :
       \E c \in ChanceValues \cup {None}, h \in HumidityValues \cup {None},
          p \in PrecipValues \cup {None}, cl \in CloudValues \cup {None},
          pr \in PressureValues \cup {None} :
          LET vals == [chance_of_rain |-> c, humidity |-> h, precipitation |-> p,
                       cloud_cover |-> cl, pressure |-> pr]
          IN  /\ \A k \in Indicators \ present : vals[k] = None
              /\ weather_params = MkDict(present, vals)
              /\ day_data = AsDayData(MkDict(present, vals))
    /\ calc_outcome = "none"
    /\ score = 0
    /\ pred_outcome = "none"
    /\ rain_probability = 0
    /\ result = NoResult

\* rain_model.calculate_rain_score(weather_params)
CallCalculateRainScore ==
    /\ calc_outcome = "none"
    /\ IF calculate_rain_score_raises(weather_params)
       THEN /\ calc_outcome' = "raised"
            /\ UNCHANGED score
       ELSE /\ calc_outcome' = "returned"
            /\ score' = calculate_rain_score(weights, weather_params)
    /\ UNCHANGED <<weights, threads, equiv, weather_params, day_data, pred_outcome,
                   rain_probability, result, aqiVars, appVars>>

\* rain_model.predict(day_data)
CallPredict ==
    /\ pred_outcome = "none"
    /\ IF predict_raises(day_data)
       THEN /\ pred_outcome' = "raised"
            /\ UNCHANGED <<rain_probability, result>>
       ELSE /\ pred_outcome' = "returned"
            /\ rain_probability' = calculate_rain_score(weights, predict_params(day_data))
            /\ result' = predict(weights, day_data)
    /\ UNCHANGED <<weights, threads, equiv, weather_params, day_data, calc_outcome, score,
                   aqiVars, appVars>>

NextRain == CallCalculateRainScore \/ CallPredict

SpecRain == InitRain /\ [][NextRain]_vars

----------------------------------------------------------------------------
(* SpecAqi: a sequence of calls of the converter *)

InitAqi ==
    /\ weights = InitWeights
    /\ RainIdle
    /\ AqiIdle
    /\ AppIdle
    /\ ThreadsIdle
    /\ EquivIdle

\* aqi_converter.pm25_to_aqi(pm25)
CallPm25ToAqi ==
    \E pm25 \in Pm25Values :
        /\ aqi_call' = [called |-> TRUE, pm25 |-> pm25, aqi |-> pm25_to_aqi(pm25)]
        /\ aqi_prev' = aqi_call
        /\ UNCHANGED <<weights, threads, equiv, rainVars, conv_call, conv_prev, appVars>>

NextAqi == CallPm25ToAqi

SpecAqi == InitAqi /\ [][NextAqi]_vars

----------------------------------------------------------------------------
(* SpecConv: a sequence of calls of the three converter methods *)

\* aqi_converter.pm25_to_aqi(pm25); the call becomes the last call, the
\* last call the one before it
ConvPm25ToAqi ==
    \E pm25 \in Pm25Values :
        /\ conv_call' = [fn |-> "pm25_to_aqi", arg |-> pm25,
                         num |-> pm25_to_aqi(pm25), level |-> ""]
        /\ conv_prev' = conv_call
        /\ UNCHANGED <<weights, threads, equiv, rainVars, aqi_call, aqi_prev, appVars>>

\* aqi_converter.pm25_to_cigarettes(pm25)
ConvPm25ToCigarettes ==
    \E pm25 \in CigarettePm25Values :
        /\ conv_call' = [fn |-> "pm25_to_cigarettes", arg |-> pm25,
                         num |-> pm25_to_cigarettes(pm25), level |-> ""]
        /\ conv_prev' = conv_call
        /\ UNCHANGED <<weights, threads, equiv, rainVars, aqi_call, aqi_prev, appVars>>

\* aqi_converter.aqi_to_category(aqi)["level"]
ConvAqiToCategory ==
    \E aqi \in AqiValues :
        /\ conv_call' = [fn |-> "aqi_to_category", arg |-> aqi,
                         num |-> 0, level |-> aqi_to_category(Num(aqi))]
        /\ conv_prev' = conv_call
        /\ UNCHANGED <<weights, threads, equiv, rainVars, aqi_call, aqi_prev, appVars>>

NextConv == ConvPm25ToAqi \/ ConvPm25ToCigarettes \/ ConvAqiToCategory

SpecConv == InitAqi /\ [][NextConv]_vars

----------------------------------------------------------------------------
(* Spec: the Flask application handling one request after the other *)

\* request.args values: None when the parameter is not given
CityValues == {None, <<"">>, <<"Chennai">>}

LatValues == {None, <<"">>, <<"13.08">>}

LonValues == {None, <<"">>, <<"80.27">>}

\* Python truthiness of a request parameter
Truthy(v) == v # None /\ v # <<"">>

\* one hour of a forecast day
Hour(pressure_mb, cloud) == [pressure_mb |-> Hd(pressure_mb), cloud |-> Hd(cloud)]

\* the forecast days an upstream response is made of: a wet day, a dry day,
\* a day that scores 75 with no precipitation, a day that scores 49.95, a
\* day with two hours to average, and a day whose hour list is empty
DayValues ==
    { [chance |-> Hd(100), humidity |-> Hd(85), precip |-> Hd(12),
       hour |-> <<Hour(999, 76)>>],
      [chance |-> 0, humidity |-> Hd(60), precip |-> 0,
       hour |-> <<Hour(1015, 50)>>],
      [chance |-> Hd(100), humidity |-> Hd(85), precip |-> 0,
       hour |-> <<Hour(999, 76)>>],
      [chance |-> 0, humidity |-> Hd(60), precip |-> 499,
       hour |-> <<Hour(999, 76)>>],
      [chance |-> Hd(100), humidity |-> Hd(70), precip |-> 240,
       hour |-> <<Hour(1000, 50), Hour(1020, 100)>>],
      [chance |-> 0, humidity |-> Hd(60), precip |-> 0, hour |-> <<>>] }

\* the forecastday lists of an upstream response: at most three days
ForecastLists ==
    {<<>>} \cup {<<a>> : a \in DayValues}
    \cup {<<a, b>> : a \in DayValues, b \in DayValues}
    \cup {<<a, b, c>> : a \in DayValues, b \in DayValues, c \in DayValues}

\* current.get('air_quality', {}) of an upstream response: the empty dict
\* when there is no air_quality object or no pm2_5 field in it
UpstreamAirQuality ==
    {EmptyDict} \cup {[pm2_5 |-> v] : v \in {None, <<0>>, <<1205>>, <<Hd(22)>>, <<Hd(600)>>}}

RECURSIVE SumField(_, _)
SumField(hours, f) ==
    IF hours = <<>> THEN 0 ELSE Head(hours)[f] + SumField(Tail(hours), f)

\* sum(hourly) / len(hourly); the hours above have whole averages
Average(hours, f) == SumField(hours, f) \div Len(hours)

\* predict_rain: the day_data dict built for a forecast day
handler_day_data(day) ==
    [daily_chance_of_rain |-> <<day.chance>>,
     avghumidity          |-> <<day.humidity>>,
     totalprecip_mm       |-> <<day.precip>>,
     cloud                |-> <<Average(day.hour, "cloud")>>,
     pressure_mb          |-> <<Average(day.hour, "pressure_mb")>>]

\* predict_rain: the rain intensity derived from totalprecip_mm
intensity_of(precip) ==
    IF precip > Hd(10) THEN "Heavy"
    ELSE IF precip > 250 THEN "Moderate"
    ELSE IF precip > 0 THEN "Light"
    ELSE "None"

\* predict_rain: the entry appended to predictions for a day
prediction_entry(w, day) ==
    LET r == predict(w, handler_day_data(day))
    IN  [will_rain |-> r.will_rain, rain_prob |-> r.probability,
         confidence |-> r.confidence, conf_percent |-> r.confidence_percent,
         intensity |-> intensity_of(day.precip)]

\* the banner of a day's card on the /rain-forecast page:
\* pred["intensity"] + ' Rain Expected' if pred['will_rain'] else ''
banner_of(pred) ==
    IF pred.will_rain THEN <<pred.intensity, "Rain Expected">> ELSE <<>>

\* predict_rain: the recommendation tier selected from max_rain_prob
recommendation_of(max_prob) ==
    IF max_prob >= Pct(70) THEN "High"
    ELSE IF max_prob >= Pct(50) THEN "Moderate"
    ELSE "Low"

\* rain_forecast_html: the day_data dict built for a forecast day
forecast_day_data(day) ==
    [daily_chance_of_rain |-> <<day.chance>>,
     avghumidity          |-> <<day.humidity>>,
     totalprecip_mm       |-> <<day.precip>>,
     cloud                |-> <<Average(day.hour, "cloud")>>,
     pressure_mb          |-> <<Average(day.hour, "pressure_mb")>>]

\* rain_forecast_html: the rain intensity derived from totalprecip_mm
forecast_intensity_of(precip) ==
    IF precip > Hd(10) THEN "Heavy"
    ELSE IF precip > 250 THEN "Moderate"
    ELSE IF precip > 0 THEN "Light"
    ELSE "None"

\* rain_forecast_html: the entry appended to predictions for a day
forecast_entry(w, day) ==
    LET r == predict(w, forecast_day_data(day))
    IN  [will_rain |-> r.will_rain, rain_prob |-> r.probability,
         confidence |-> r.confidence, conf_percent |-> r.confidence_percent,
         intensity |-> forecast_intensity_of(day.precip)]

\* page_recommendation_of comparing with `>`, not `>=`
page_recommendation_of_strict(max_prob) ==
    IF max_prob > Pct(70) THEN "High"
    ELSE IF max_prob > Pct(50) THEN "Moderate"
    ELSE "Low"

\* rain_forecast_html: the recommendation sentence of the page, by tier
page_recommendation_of(max_prob) ==
    IF max_prob >= Pct(70) THEN "High"
    ELSE IF max_prob >= Pct(50) THEN "Moderate"
    ELSE "Low"

\* sum(1 for p in predictions if p['prediction']['will_rain'])
days_with_rain_of(preds) ==
    Cardinality({i \in 1..Len(preds) : preds[i].will_rain})

Respond(status, body) ==
    [NoResponse EXCEPT !.status = status, !.body = body]

Init ==
    /\ weights = InitWeights
    /\ RainIdle
    /\ AqiIdle
    /\ AppIdle
    /\ ThreadsIdle
    /\ EquivIdle

\* a new request arrives: the handler's locals start afresh
Receive(route, city, lat, lon) ==
    /\ pc \in {"idle", "done"}
    /\ request' = [route |-> route, city |-> city, lat |-> lat, lon |-> lon]
    /\ fetches' = 0
    /\ upstream' = "none"
    /\ forecast_days' = <<>>
    /\ overall_will_rain' = FALSE
    /\ max_rain_prob' = 0
    /\ predictions' = <<>>
    /\ air' = NoAir

\* GET /
home ==
    /\ Receive("/", None, None, None)
    /\ query' = None
    /\ response' = Respond(200, "home")
    /\ pc' = "done"
    /\ UNCHANGED <<weights, threads, equiv, rainVars, aqiVars>>

\* GET /model-info
model_info ==
    /\ Receive("/model-info", None, None, None)
    /\ query' = None
    /\ response' = Respond(200, "model_info")
    /\ pc' = "done"
    /\ UNCHANGED <<weights, threads, equiv, rainVars, aqiVars>>

\* predict_rain_start testing `city is None`, which lets ?city= through
predict_rain_start_none_only ==
    \E city \in CityValues :
        /\ Receive("/predict-rain", city, None, None)
        /\ IF city = None
           THEN /\ response' = Respond(400, "city parameter required")
                /\ query' = None
                /\ pc' = "done"
           ELSE /\ response' = NoResponse
                /\ query' = city
                /\ pc' = "fetch"
        /\ UNCHANGED <<weights, threads, equiv, rainVars, aqiVars>>

\* GET /predict-rain, up to the upstream call
predict_rain_start ==
    \E city \in CityValues :
        /\ Receive("/predict-rain", city, None, None)
        /\ IF ~Truthy(city)
           THEN /\ response' = Respond(400, "city parameter required")
                /\ query' = None
                /\ pc' = "done"
           ELSE /\ response' = NoResponse
                /\ query' = city
                /\ pc' = "fetch"
        /\ UNCHANGED <<weights, threads, equiv, rainVars, aqiVars>>

\* predict_rain_fetch without the `except requests.exceptions.Timeout`
\* clause, as in rain_forecast_html: a timeout falls to `except Exception`
predict_rain_fetch_without_timeout_clause ==
    /\ pc = "fetch" /\ request.route = "/predict-rain"
    /\ fetches' = fetches + 1
    /\ \/ /\ upstream' = "timeout"
          /\ response' = Respond(500, "Error")
          /\ pc' = "done"
          /\ UNCHANGED forecast_days
       \/ /\ upstream' = "status"
          /\ response' = Respond(400, "Failed to fetch weather data")
          /\ pc' = "done"
          /\ UNCHANGED forecast_days
       \/ /\ upstream' = "exception"
          /\ response' = Respond(500, "Error")
          /\ pc' = "done"
          /\ UNCHANGED forecast_days
       \/ \E days \in ForecastLists :
            /\ upstream' = "ok"
            /\ forecast_days' = days
            /\ pc' = "days"
            /\ UNCHANGED response
    /\ UNCHANGED <<weights, threads, equiv, rainVars, aqiVars, request, query, overall_will_rain,
                   max_rain_prob, predictions, air>>

\* GET /predict-rain: requests.get and the reading of its response
predict_rain_fetch ==
    /\ pc = "fetch" /\ request.route = "/predict-rain"
    /\ fetches' = fetches + 1
    /\ \/ \* requests.exceptions.Timeout
          /\ upstream' = "timeout"
          /\ response' = Respond(504, "Request timeout")
          /\ pc' = "done"
          /\ UNCHANGED forecast_days
       \/ \* response.status_code != 200
          /\ upstream' = "status"
          /\ response' = Respond(400, "Failed to fetch weather data")
          /\ pc' = "done"
          /\ UNCHANGED forecast_days
       \/ \* any other exception of requests.get or of reading the JSON
          /\ upstream' = "exception"
          /\ response' = Respond(500, "Error")
          /\ pc' = "done"
          /\ UNCHANGED forecast_days
       \/ \E days \in ForecastLists :
            /\ upstream' = "ok"
            /\ forecast_days' = days
            /\ pc' = "days"
            /\ UNCHANGED response
    /\ UNCHANGED <<weights, threads, equiv, rainVars, aqiVars, request, query, overall_will_rain,
                   max_rain_prob, predictions, air>>

\* process_day with `max_rain_prob = rain_prob` on every day, which keeps
\* the last day's probability
process_day_last_probability ==
    LET day == Head(forecast_days)
        e   == prediction_entry(weights, day)
    IN  IF day.hour = <<>>
        THEN /\ response' = Respond(500, "Error")
             /\ pc' = "done"
             /\ UNCHANGED <<forecast_days, overall_will_rain, max_rain_prob, predictions>>
        ELSE /\ overall_will_rain' = (overall_will_rain \/ e.will_rain)
             /\ max_rain_prob' = e.rain_prob
             /\ predictions' = Append(predictions, e)
             /\ forecast_days' = Tail(forecast_days)
             /\ UNCHANGED <<pc, response>>

\* one iteration of the per-day loop of predict_rain
process_day ==
    LET day == Head(forecast_days)
        e   == prediction_entry(weights, day)
    IN  IF day.hour = <<>>
        THEN \* ZeroDivisionError, caught by except Exception
             /\ response' = Respond(500, "Error")
             /\ pc' = "done"
             /\ UNCHANGED <<forecast_days, overall_will_rain, max_rain_prob, predictions>>
        ELSE /\ overall_will_rain' = (overall_will_rain \/ e.will_rain)
             /\ max_rain_prob' = IF e.rain_prob > max_rain_prob
                                 THEN e.rain_prob ELSE max_rain_prob
             /\ predictions' = Append(predictions, e)
             /\ forecast_days' = Tail(forecast_days)
             /\ UNCHANGED <<pc, response>>

\* predict_rain_day with a model that shifts weight from the forecast to
\* the measured precipitation after every day it scores
predict_rain_day_adapting ==
    /\ pc = "days" /\ request.route = "/predict-rain"
    /\ forecast_days # <<>>
    /\ process_day
    /\ weights' = [weights EXCEPT !["chance_of_rain"] = 30, !["precipitation"] = 30]
    /\ UNCHANGED <<threads, equiv, rainVars, aqiVars, request, query, fetches, upstream, air>>

\* GET /predict-rain: one iteration of the loop over forecast_days
predict_rain_day ==
    /\ pc = "days" /\ request.route = "/predict-rain"
    /\ forecast_days # <<>>
    /\ process_day
    /\ UNCHANGED <<weights, threads, equiv, rainVars, aqiVars, request, query, fetches, upstream, air>>

\* GET /predict-rain: the summary and the JSON response
predict_rain_finish ==
    /\ pc = "days" /\ request.route = "/predict-rain"
    /\ forecast_days = <<>>
    /\ response' = [status |-> 200, body |-> "predictions",
                    will_rain |-> overall_will_rain,
                    max_rain_probability |-> max_rain_prob,
                    days_with_rain |-> days_with_rain_of(predictions),
                    recommendation |-> recommendation_of(max_rain_prob)]
    /\ pc' = "done"
    /\ UNCHANGED <<weights, threads, equiv, rainVars, aqiVars, request, query, fetches, upstream, forecast_days,
                   overall_will_rain, max_rain_prob, predictions, air>>

\* rain_forecast_start preferring the city: `if city: query = city`,
\* the coordinates only without one
rain_forecast_start_city_first ==
    \E city \in CityValues, lat \in LatValues, lon \in LonValues :
        /\ Receive("/rain-forecast", city, lat, lon)
        /\ IF ~Truthy(city) /\ ~Truthy(lat) /\ ~Truthy(lon)
           THEN /\ response' = Respond(200, "location page")
                /\ query' = None
                /\ pc' = "done"
           ELSE /\ response' = NoResponse
                /\ query' = IF Truthy(city) \/ ~(Truthy(lat) /\ Truthy(lon))
                            THEN city
                            ELSE <<lat[1], ",", lon[1]>>
                /\ pc' = "fetch"
        /\ UNCHANGED <<weights, threads, equiv, rainVars, aqiVars>>

\* GET /rain-forecast, up to the upstream call
rain_forecast_start ==
    \E city \in CityValues, lat \in LatValues, lon \in LonValues :
        /\ Receive("/rain-forecast", city, lat, lon)
        /\ IF ~Truthy(city) /\ ~Truthy(lat) /\ ~Truthy(lon)
           THEN /\ response' = Respond(200, "location page")
                /\ query' = None
                /\ pc' = "done"
           ELSE /\ response' = NoResponse
                /\ query' = IF Truthy(lat) /\ Truthy(lon)
                            THEN <<lat[1], ",", lon[1]>>
                            ELSE city
                /\ pc' = "fetch"
        /\ UNCHANGED <<weights, threads, equiv, rainVars, aqiVars>>

\* aqi_data.get('pm2_5', 12): a missing reading taken as 12 ug/m3
pm25_of_default_12(aqi_data) == Get(aqi_data, "pm2_5", Hd(12))

\* rain_forecast_html: pm25 = aqi_data.get('pm2_5', 0)
pm25_of(aqi_data) == Get(aqi_data, "pm2_5", 0)

\* GET /rain-forecast: requests.get, the reading of its response and the
\* air-quality values
rain_forecast_fetch ==
    /\ pc = "fetch" /\ request.route = "/rain-forecast"
    /\ fetches' = fetches + 1
    /\ \/ /\ upstream' = "status"
          /\ response' = Respond(400, "Could not fetch weather")
          /\ pc' = "done"
          /\ UNCHANGED <<forecast_days, air>>
       \/ \* a timeout or a malformed response, caught by except Exception
          /\ upstream' \in {"timeout", "exception"}
          /\ response' = Respond(500, "Error")
          /\ pc' = "done"
          /\ UNCHANGED <<forecast_days, air>>
       \/ \E days \in ForecastLists, aqi_data \in UpstreamAirQuality :
            LET pm25 == pm25_of(aqi_data)
                cigarettes_per_day == pm25_to_cigarettes(pm25)
            IN  /\ upstream' = "ok"
                /\ forecast_days' = days
                /\ air' = [aqi_data |-> aqi_data,
                           pm25 |-> pm25,
                           calculated_aqi |-> pm25_to_aqi(pm25),
                           level |-> aqi_to_category(pm25_to_aqi(pm25)),
                           cigarettes_per_day |-> cigarettes_per_day,
                           yearly_cigs |->
                               RoundHalfEven(cigarettes_per_day * 365, 10) \div 10]
                /\ pc' = "days"
                /\ UNCHANGED response
    /\ UNCHANGED <<weights, threads, equiv, rainVars, aqiVars, request, query, overall_will_rain,
                   max_rain_prob, predictions>>

\* one iteration of the per-day loop of rain_forecast_html
process_forecast_day ==
    LET day == Head(forecast_days)
        e   == forecast_entry(weights, day)
    IN  IF day.hour = <<>>
        THEN \* ZeroDivisionError, caught by except Exception
             /\ response' = Respond(500, "Error")
             /\ pc' = "done"
             /\ UNCHANGED <<forecast_days, overall_will_rain, max_rain_prob, predictions>>
        ELSE /\ overall_will_rain' = (overall_will_rain \/ e.will_rain)
             /\ max_rain_prob' = IF e.rain_prob > max_rain_prob
                                 THEN e.rain_prob ELSE max_rain_prob
             /\ predictions' = Append(predictions, e)
             /\ forecast_days' = Tail(forecast_days)
             /\ UNCHANGED <<pc, response>>

\* GET /rain-forecast: one iteration of the loop over forecast_days
rain_forecast_day ==
    /\ pc = "days" /\ request.route = "/rain-forecast"
    /\ forecast_days # <<>>
    /\ process_forecast_day
    /\ UNCHANGED <<weights, threads, equiv, rainVars, aqiVars, request, query, fetches, upstream, air>>

\* GET /rain-forecast: the HTML page
rain_forecast_finish ==
    /\ pc = "days" /\ request.route = "/rain-forecast"
    /\ forecast_days = <<>>
    /\ response' = [status |-> 200, body |-> "forecast page",
                    will_rain |-> overall_will_rain,
                    max_rain_probability |-> max_rain_prob,
                    days_with_rain |-> days_with_rain_of(predictions),
                    recommendation |-> page_recommendation_of(max_rain_prob)]
    /\ pc' = "done"
    /\ UNCHANGED <<weights, threads, equiv, rainVars, aqiVars, request, query, fetches, upstream, forecast_days,
                   overall_will_rain, max_rain_prob, predictions, air>>

Next ==
    \/ home
    \/ model_info
    \/ predict_rain_start
    \/ predict_rain_fetch
    \/ predict_rain_day
    \/ predict_rain_finish
    \/ rain_forecast_start
    \/ rain_forecast_fetch
    \/ rain_forecast_day
    \/ rain_forecast_finish

Spec == Init /\ [][Next]_vars

----------------------------------------------------------------------------
(* Properties of the rain scorer, checked under SpecRain *)

\* every present value is a number inside its declared range
ValidSample(wp) ==
    \A k \in DOMAIN wp :
        /\ wp[k] # None
        /\ k \in {"chance_of_rain", "humidity", "cloud_cover"}
              => (Num(wp[k]) >= 0 /\ Num(wp[k]) <= Hd(100))
        /\ k = "precipitation" => Num(wp[k]) >= 0

\* C1: for every valid sample the probability returned by
\* calculate_rain_score, and the probability returned by predict, is
\* at least 0 and at most 100.
C1_ProbabilityInRange ==
    /\ (calc_outcome = "returned" /\ ValidSample(weather_params))
          => (score >= 0 /\ score <= Pct(100))
    /\ (pred_outcome = "returned" /\ ValidSample(predict_params(day_data)))
          => (result.probability >= 0 /\ result.probability <= Pct(100))

\* a valid sample with all five sub-scores at 100 was scored by both functions
C1_Witness ==
    /\ calc_outcome = "returned" /\ pred_outcome = "returned"
    /\ ValidSample(weather_params)
    /\ DOMAIN weather_params = Indicators
    /\ score = Pct(100) /\ result.probability = Pct(100)

\* C2: the will_rain returned by predict is true if and only if the
\* probability returned with it (rounded to 1 decimal) is at least 50.
C2_WillRainIffReturnedProbability ==
    pred_outcome = "returned"
        => (result.will_rain <=> result.probability >= Pct(50))

ScoredEmptySample == calc_outcome # "none" /\ DOMAIN weather_params = {}

\* C4 as stated: with no indicator present the total is 0, will_rain is
\* false and the confidence is Low (50), and no error is raised.
C4_EmptySampleLow ==
    ScoredEmptySample =>
        /\ calc_outcome = "returned"
        /\ score = 0
        /\ ~will_rain_of(score)
        /\ confidence_of(score) = <<"Low", 50>>

\* C4 amended: with no indicator present calculate_rain_score returns 0
\* without raising, will_rain (0 >= 50) is false, and predict's tier rule
\* puts the probability 0 in High (90) because 0 <= 20.
C4_EmptySampleHigh ==
    ScoredEmptySample =>
        /\ calc_outcome = "returned"
        /\ score = 0
        /\ ~will_rain_of(score)
        /\ confidence_of(score) = <<"High", 90>>

C4_Witness == ScoredEmptySample /\ calc_outcome = "returned"

\* the sub-score table of the specification, one bin per line
SpecSubScore(k, v) ==
    CASE k = "chance_of_rain" -> v
      [] k = "humidity" ->
            (CASE v <= Hd(60)               -> Hd(25)
               [] v > Hd(60) /\ v <= Hd(70) -> Hd(50)
               [] v > Hd(70) /\ v <= Hd(80) -> Hd(75)
               [] v > Hd(80)                -> Hd(100))
      [] k = "precipitation" -> IF v * 20 >= Hd(100) THEN Hd(100) ELSE v * 20
      [] k = "cloud_cover" ->
            (CASE v <= Hd(50)               -> Hd(20)
               [] v > Hd(50) /\ v <= Hd(75) -> Hd(60)
               [] v > Hd(75)                -> Hd(100))
      [] k = "pressure" ->
            (CASE v >= Hd(1015)                  -> Hd(10)
               [] v >= Hd(1010) /\ v < Hd(1015) -> Hd(40)
               [] v >= Hd(1000) /\ v < Hd(1010) -> Hd(70)
               [] v < Hd(1000)                   -> Hd(100))

RECURSIVE SpecWeightedSum(_, _)
\* the sum of weight x sub-score over the indicators ks present in wp, with
\* the weights 0.35, 0.20, 0.25, 0.10, 0.10
SpecWeightedSum(wp, ks) ==
    IF ks = {} THEN 0
    ELSE LET k == CHOOSE x \in ks : TRUE
             W == [chance_of_rain |-> 35, humidity |-> 20, precipitation |-> 25,
                   cloud_cover |-> 10, pressure |-> 10]
         IN  W[k] * SpecSubScore(k, Num(wp[k])) + SpecWeightedSum(wp, ks \ {k})

SpecTotal(wp) ==
    LET S == SpecWeightedSum(wp, DOMAIN wp)
    IN  IF S < 0 THEN 0 ELSE IF S > Pct(100) THEN Pct(100) ELSE S

\* x is v rounded to one decimal: a multiple of 0.1 at distance at most 0.05
IsRounded1(x, v) == x % 1000 = 0 /\ 2 * (x - v) <= 1000 /\ 2 * (v - x) <= 1000

\* C5: the total is clamp(S, 0, 100), S the sum over the present indicators
\* of weight x sub-score with the sub-score table of the specification
\* (strict thresholds: humidity 80 scores 75, cloud 75 scores 60, pressure
\* 1000 scores 70); the reported probability is the total rounded to 1
\* decimal.
C5_TotalIsClampedWeightedSum ==
    /\ calc_outcome = "returned" => score = SpecTotal(weather_params)
    /\ pred_outcome = "returned" =>
          /\ rain_probability = SpecTotal(predict_params(day_data))
          /\ IsRounded1(result.probability, rain_probability)
    /\ (calc_outcome = "returned" /\ weather_params = [humidity |-> <<Hd(80)>>])
          => score = 75 * 20 * 100
    /\ (calc_outcome = "returned" /\ weather_params = [cloud_cover |-> <<Hd(75)>>])
          => score = 60 * 10 * 100
    /\ (calc_outcome = "returned" /\ weather_params = [pressure |-> <<Hd(1000)>>])
          => score = 70 * 10 * 100

\* both functions returned for a sample with the three boundary values
\* humidity 80, cloud 75 and pressure 1000, whose sum was rounded
C5_Witness ==
    /\ calc_outcome = "returned" /\ pred_outcome = "returned"
    /\ DOMAIN weather_params = Indicators
    /\ weather_params.humidity = <<Hd(80)>>
    /\ weather_params.cloud_cover = <<Hd(75)>>
    /\ weather_params.pressure = <<Hd(1000)>>
    /\ result.probability # rain_probability

OnlyHumidity85 == weather_params = [humidity |-> <<Hd(85)>>]

OnlyPrecipitation5 == weather_params = [precipitation |-> <<Hd(5)>>]

\* C7: scoring a sample whose only present field is precipitation_mm = 5
\* saturates the precipitation sub-score at 100 and gives probability 25.0
\* with confidence Medium (70).
C7_Precipitation5Only ==
    (calc_outcome # "none" /\ OnlyPrecipitation5) =>
        /\ calc_outcome = "returned"
        /\ sub_score("precipitation", Num(weather_params.precipitation)) = Hd(100)
        /\ score = Pct(25)
        /\ Round1(score) = Pct(25)
        /\ confidence_of(score) = <<"Medium", 70>>

C7_Witness == calc_outcome = "returned" /\ OnlyPrecipitation5

----------------------------------------------------------------------------
(* Properties of the application, checked under Spec *)

\* a sample whose five sub-scores are all 100
AllSubScores100 ==
    [chance_of_rain |-> <<Hd(100)>>, humidity |-> <<Hd(85)>>,
     precipitation |-> <<Hd(12)>>, cloud_cover |-> <<Hd(76)>>,
     pressure |-> <<Hd(999)>>]

\* C8: in every reachable state the weight vector of the shared rain_model
\* is chance_of_rain 0.35, humidity 0.20, precipitation 0.25, cloud_cover
\* 0.10, pressure 0.10; the weights sum to 1.0, so five sub-scores of 100
\* give a total of exactly 100.
C8_WeightsFixed ==
    /\ DOMAIN weights = Indicators
    /\ weights.chance_of_rain = 35
    /\ weights.humidity = 20
    /\ weights.precipitation = 25
    /\ weights.cloud_cover = 10
    /\ weights.pressure = 10
    /\ weights.chance_of_rain + weights.humidity + weights.precipitation
         + weights.cloud_cover + weights.pressure = 100
    /\ total_score(weights, AllSubScores100) = Pct(100)

\* a /predict-rain request was answered with three scored days, one of
\* them with five sub-scores of 100
C8_Witness ==
    /\ request.route = "/predict-rain" /\ pc = "done"
    /\ response.status = 200
    /\ Len(predictions) = 3
    /\ \E i \in 1..3 : predictions[i].rain_prob = Pct(100)

----------------------------------------------------------------------------
(* Properties of the converter, checked under SpecAqi *)

\* C9: pm25_to_aqi is monotonically non-decreasing over the whole
\* non-negative domain, within and across brackets and in the gaps between
\* brackets: of two calls with 0 <= a <= b, the one with a returns no more.
C9_AqiMonotone ==
    \A x \in {aqi_call, aqi_prev}, y \in {aqi_call, aqi_prev} :
        (/\ x.called /\ y.called
         /\ x.pm25 # None /\ y.pm25 # None
         /\ Num(x.pm25) >= 0
         /\ Num(x.pm25) <= Num(y.pm25))
        => x.aqi <= y.aqi

\* the last call had a numeric argument inside bracket bp
CalledInBracket(bp) ==
    /\ aqi_call.called
    /\ aqi_call.pm25 # None
    /\ bp[1] <= Num(aqi_call.pm25) /\ Num(aqi_call.pm25) <= bp[2]

\* C10: for a pm25 inside a bracket, both ends closed, pm25_to_aqi returns
\* the linear interpolation rounded to an integer; the result lies in
\* [aqi_low, aqi_high], pm_low maps to aqi_low and pm_high to aqi_high
\* (12.0 -> 50, 12.1 -> 51, 35.4 -> 100, 500.4 -> 500).
C10_InterpolationInBracket ==
    /\ \A i \in 1..6 :
          LET bp == breakpoints[i]
              pm == Num(aqi_call.pm25)
              a  == aqi_call.aqi
              d  == bp[2] - bp[1]
              \* d x the unrounded interpolation
              v  == (bp[4] - bp[3]) * (pm - bp[1]) + bp[3] * d
          IN  CalledInBracket(bp) =>
                /\ 2 * (a * d - v) <= d /\ 2 * (v - a * d) <= d
                /\ bp[3] <= a /\ a <= bp[4]
                /\ pm = bp[1] => a = bp[3]
                /\ pm = bp[2] => a = bp[4]
    /\ aqi_call.called =>
          /\ aqi_call.pm25 = <<1200>> => aqi_call.aqi = 50
          /\ aqi_call.pm25 = <<1210>> => aqi_call.aqi = 51
          /\ aqi_call.pm25 = <<3540>> => aqi_call.aqi = 100
          /\ aqi_call.pm25 = <<50040>> => aqi_call.aqi = 500

\* pm25 = 35.4, the upper end of the second bracket, was converted after a
\* value strictly inside a bracket
C10_Witness ==
    /\ aqi_call.called /\ aqi_call.pm25 = <<3540>> /\ aqi_call.aqi = 100
    /\ aqi_prev.called /\ aqi_prev.pm25 = <<Hd(22)>> /\ aqi_prev.aqi = 72

\* C11: pm25_to_aqi returns an integer in [0, 500] for every argument: 0
\* when pm25 is None or negative, 500 when pm25 is above 500.4 (600 -> 500).
C11_AqiInRange ==
    \A c \in {aqi_call, aqi_prev} :
        c.called =>
          /\ c.aqi \in 0..500
          /\ c.pm25 = None => c.aqi = 0
          /\ (c.pm25 # None /\ Num(c.pm25) < 0) => c.aqi = 0
          /\ (c.pm25 # None /\ Num(c.pm25) > 50040) => c.aqi = 500
          /\ c.pm25 = <<Hd(600)>> => c.aqi = 500

\* a negative pm25 was converted, then 600
C11_Witness ==
    /\ aqi_prev.called /\ aqi_prev.pm25 = <<0 - Hd(1)>> /\ aqi_prev.aqi = 0
    /\ aqi_call.called /\ aqi_call.pm25 = <<Hd(600)>> /\ aqi_call.aqi = 500

----------------------------------------------------------------------------
(* SpecEquiv: the per-day loop and the recommendation of each of the two
   forecast handlers, applied to the same forecastday list *)

\* the locals of a handler when its loop starts
LoopStart == [NoSummary EXCEPT !.ran = TRUE]

\* a loop that raised: the handler answers 500 and nothing else
LoopError == [NoSummary EXCEPT !.ran = TRUE, !.error = TRUE]

RECURSIVE predict_rain_loop(_, _, _)
\* predict_rain: the loop over the days left, from the locals acc, and the
\* recommendation of the summary
predict_rain_loop(w, days, acc) ==
    IF days = <<>>
    THEN [acc EXCEPT !.recommendation = recommendation_of(acc.max_rain_prob)]
    ELSE IF Head(days).hour = <<>> THEN LoopError
    ELSE LET e == prediction_entry(w, Head(days))
         IN  predict_rain_loop(w, Tail(days),
                 [acc EXCEPT !.predictions = Append(@, e),
                             !.overall_will_rain = (@ \/ e.will_rain),
                             !.max_rain_prob = IF e.rain_prob > @
                                               THEN e.rain_prob ELSE @])

RECURSIVE rain_forecast_loop(_, _, _)
\* rain_forecast_html: the loop over the days left, from the locals acc,
\* and the recommendation of the page
rain_forecast_loop(w, days, acc) ==
    IF days = <<>>
    THEN [acc EXCEPT !.recommendation = page_recommendation_of(acc.max_rain_prob)]
    ELSE IF Head(days).hour = <<>> THEN LoopError
    ELSE LET e == forecast_entry(w, Head(days))
         IN  rain_forecast_loop(w, Tail(days),
                 [acc EXCEPT !.predictions = Append(@, e),
                             !.overall_will_rain = (@ \/ e.will_rain),
                             !.max_rain_prob = IF e.rain_prob > @
                                               THEN e.rain_prob ELSE @])

InitEquiv ==
    /\ weights = InitWeights
    /\ RainIdle
    /\ AqiIdle
    /\ AppIdle
    /\ ThreadsIdle
    /\ \E days \in ForecastLists :
         equiv = [days |-> days, json |-> NoSummary, page |-> NoSummary]

\* /predict-rain processes the forecast list
RunPredictRainLoop ==
    /\ ~equiv.json.ran
    /\ equiv' = [equiv EXCEPT !.json = predict_rain_loop(weights, equiv.days, LoopStart)]
    /\ UNCHANGED <<weights, threads, rainVars, aqiVars, appVars>>

\* /rain-forecast processes the forecast list
RunRainForecastLoop ==
    /\ ~equiv.page.ran
    /\ equiv' = [equiv EXCEPT !.page = rain_forecast_loop(weights, equiv.days, LoopStart)]
    /\ UNCHANGED <<weights, threads, rainVars, aqiVars, appVars>>

NextEquiv == RunPredictRainLoop \/ RunRainForecastLoop

SpecEquiv == InitEquiv /\ [][NextEquiv]_vars

----------------------------------------------------------------------------
(* SpecConcurrent: calls of the shared rain_model and aqi_converter made by
   two worker threads, interleaved at every read of self.weights *)

\* the arguments of the concurrent predict calls: the empty day, a wet day
\* and a day with two fields
ConcurrentDayData ==
    {EmptyDict,
     [daily_chance_of_rain |-> <<Hd(100)>>, avghumidity |-> <<Hd(85)>>,
      totalprecip_mm |-> <<Hd(12)>>, cloud |-> <<Hd(76)>>,
      pressure_mb |-> <<Hd(999)>>],
     [avghumidity |-> <<Hd(70)>>, cloud |-> <<Hd(75)>>]}

\* the arguments of the concurrent pm25_to_aqi calls
ConcurrentPm25 == {None, <<Hd(22)>>, <<Hd(600)>>}

\* calculate_rain_score: the order in which the indicators are scored
IndicatorOrder ==
    <<"chance_of_rain", "humidity", "precipitation", "cloud_cover", "pressure">>

RECURSIVE Sum(_)
\* sum(scores)
Sum(scores) == IF scores = <<>> THEN 0 ELSE Head(scores) + Sum(Tail(scores))

\* thread t calls rain_model.predict(day_data): params is built and
\* calculate_rain_score starts with scores = []
thread_predict(t) ==
    /\ threads[t].pc \in {"idle", "returned"}
    /\ \E dd \in ConcurrentDayData :
         threads' = [threads EXCEPT ![t] =
                        [NoThreadCall EXCEPT !.pc = "scoring", !.fn = "predict",
                                             !.day_data = dd,
                                             !.params = predict_params(dd)]]
    /\ UNCHANGED <<weights, equiv, rainVars, aqiVars, appVars>>

\* thread_append with scores kept in an attribute of the shared instance
\* (self.scores): the entry lands in the list of every call being scored
thread_append_shared(t) ==
    /\ threads[t].pc = "scoring"
    /\ threads[t].i < Len(IndicatorOrder)
    /\ LET k == IndicatorOrder[threads[t].i + 1]
           entry == sub_score(k, Num(threads[t].params[k])) * weights[k]
       IN  threads' =
             [u \in Threads |->
                IF threads[u].pc = "scoring"
                THEN [threads[u] EXCEPT
                        !.scores = Append(@, entry),
                        !.i = IF u = t THEN @ + 1 ELSE @]
                ELSE threads[u]]
    /\ UNCHANGED <<weights, equiv, rainVars, aqiVars, appVars>>

\* thread t, inside calculate_rain_score, scores the next indicator: it
\* reads self.weights[k] and appends the entry to its local scores
thread_append(t) ==
    /\ threads[t].pc = "scoring"
    /\ threads[t].i < Len(IndicatorOrder)
    /\ LET k == IndicatorOrder[threads[t].i + 1]
           entry == sub_score(k, Num(threads[t].params[k])) * weights[k]
       IN  threads' = [threads EXCEPT ![t].scores = Append(@, entry),
                                      ![t].i = @ + 1]
    /\ UNCHANGED <<weights, equiv, rainVars, aqiVars, appVars>>

\* thread t leaves calculate_rain_score and predict returns its tuple
thread_return(t) ==
    /\ threads[t].pc = "scoring"
    /\ threads[t].i = Len(IndicatorOrder)
    /\ threads' = [threads EXCEPT
                      ![t].pc = "returned",
                      ![t].result = predict_result(clamp_score(Sum(threads[t].scores)))]
    /\ UNCHANGED <<weights, equiv, rainVars, aqiVars, appVars>>

\* thread t calls aqi_converter.pm25_to_aqi(pm25), which reads only its
\* argument and its local breakpoints list
thread_pm25_to_aqi(t) ==
    /\ threads[t].pc \in {"idle", "returned"}
    /\ \E pm25 \in ConcurrentPm25 :
         threads' = [threads EXCEPT ![t] =
                        [NoThreadCall EXCEPT !.pc = "returned",
                                             !.fn = "pm25_to_aqi",
                                             !.pm25 = pm25,
                                             !.aqi = pm25_to_aqi(pm25)]]
    /\ UNCHANGED <<weights, equiv, rainVars, aqiVars, appVars>>

NextConcurrent ==
    \E t \in Threads :
        \/ thread_predict(t)
        \/ thread_append(t)
        \/ thread_return(t)
        \/ thread_pm25_to_aqi(t)

SpecConcurrent == Init /\ [][NextConcurrent]_vars

----------------------------------------------------------------------------
(* Properties of the converter, checked under SpecConv *)

\* the call had a numeric argument
ConvNumeric(c) == c.fn # "" /\ c.arg # None

\* C12: for every negative pm25, pm25_to_aqi and pm25_to_cigarettes both
\* return 0, so the cigarettes per day are never negative.
C12_NegativePm25IsZero ==
    \A c \in {conv_call, conv_prev} :
        /\ (/\ ConvNumeric(c)
            /\ c.fn \in {"pm25_to_aqi", "pm25_to_cigarettes"}
            /\ Num(c.arg) < 0) => c.num = 0
        /\ c.fn = "pm25_to_cigarettes" => c.num >= 0

\* C13: pm25_to_cigarettes returns 0 when pm25 is None or exactly 0 and
\* otherwise pm25 / 22 rounded to one decimal; pm25 = 22 gives exactly 1.0.
\* (num is 10 x the returned value, the argument 100 x pm25.)
C13_CigarettesPer22 ==
    \A c \in {conv_call, conv_prev} :
        c.fn = "pm25_to_cigarettes" =>
          /\ c.arg = None => c.num = 0
          /\ c.arg = <<0>> => c.num = 0
          /\ (c.arg # None /\ c.arg # <<0>>) =>
                /\ 2 * (220 * c.num - Num(c.arg)) <= 220
                /\ 2 * (Num(c.arg) - 220 * c.num) <= 220
          /\ c.arg = <<Hd(22)>> => c.num = 10

\* pm25 = 22 was converted to 1.0 cigarettes after None was converted to 0
C13_Witness ==
    /\ conv_prev.fn = "pm25_to_cigarettes" /\ conv_prev.arg = None
    /\ conv_prev.num = 0
    /\ conv_call.fn = "pm25_to_cigarettes" /\ conv_call.arg = <<Hd(22)>>
    /\ conv_call.num = 10

\* the six levels in order of severity
Levels ==
    << "Good", "Moderate", "Unhealthy for Sensitive Groups", "Unhealthy",
       "Very Unhealthy", "Hazardous" >>

\* the position of a level in that order
SeverityRank(level) == CHOOSE i \in 1..Len(Levels) : Levels[i] = level

\* the upper end of band i; the last band has none
BandTop == <<50, 100, 150, 200, 300>>

\* aqi lies in band i: above the top of band i - 1, not above its own top
InBand(i, aqi) ==
    /\ i > 1 => aqi > BandTop[i - 1]
    /\ i < 6 => aqi <= BandTop[i]

\* C14: aqi_to_category maps every integer AQI to exactly one of six bands
\* (<= 50 Good, <= 100 Moderate, <= 150 Unhealthy for Sensitive Groups,
\* <= 200 Unhealthy, <= 300 Very Unhealthy, otherwise Hazardous; 50 is Good,
\* 51 Moderate, 500 Hazardous), and the severity rank never decreases as
\* the AQI increases.
C14_CategoryBands ==
    /\ \A c \in {conv_call, conv_prev} :
          c.fn = "aqi_to_category" =>
            /\ \E i \in 1..6 : c.level = Levels[i]
            /\ \A i \in 1..6 : c.level = Levels[i] <=> InBand(i, Num(c.arg))
            /\ c.arg = <<50>> => c.level = "Good"
            /\ c.arg = <<51>> => c.level = "Moderate"
            /\ c.arg = <<500>> => c.level = "Hazardous"
    /\ (/\ conv_prev.fn = "aqi_to_category"
        /\ conv_call.fn = "aqi_to_category"
        /\ Num(conv_prev.arg) <= Num(conv_call.arg))
          => SeverityRank(conv_prev.level) <= SeverityRank(conv_call.level)

\* AQI 50 was classified Good, then AQI 51 Moderate
C14_Witness ==
    /\ conv_prev.fn = "aqi_to_category" /\ conv_prev.arg = <<50>>
    /\ conv_prev.level = "Good"
    /\ conv_call.fn = "aqi_to_category" /\ conv_call.arg = <<51>>
    /\ conv_call.level = "Moderate"

----------------------------------------------------------------------------
(* Further properties of the rain model, checked under SpecRain *)

\* C15: no core operation reaches an error because a numeric field is
\* missing: whenever each of the five fields of the argument is a number, a
\* missing key or a key whose value is None, calculate_rain_score and
\* predict return a result; pm25_to_cigarettes(None) and pm25_to_aqi(None)
\* return 0.
C15_NoErrorOnMissingField ==
    /\ calc_outcome # "raised"
    /\ pred_outcome # "raised"
    /\ pm25_to_cigarettes(None) = 0
    /\ pm25_to_aqi(None) = 0

\* C17: the confidence rule that /model-info publishes matches the one
\* predict applies: High exactly when the probability is above 80 or below
\* 20, Medium exactly when it is in 65-80 or 20-35, Low exactly when it is
\* in 35-65.  (The probability is the one predict's rule reads.)
C17_PublishedRuleMatches ==
    pred_outcome = "returned" =>
        /\ result.confidence \in confidence_calculation(rain_probability)
        /\ result.confidence = "High"
             <=> (rain_probability > Pct(80) \/ rain_probability < Pct(20))

\* the defaults the claim lists, by key of day_data
DefaultDay ==
    [daily_chance_of_rain |-> <<0>>, avghumidity |-> <<Hd(50)>>,
     totalprecip_mm |-> <<0>>, cloud |-> <<Hd(50)>>,
     pressure_mb |-> <<Hd(1013)>>]

\* day_data with every missing key set to its default
Completed(dd) ==
    [k \in DOMAIN DefaultDay |-> IF k \in DOMAIN dd THEN dd[k] ELSE DefaultDay[k]]

\* C18: predict never passes an absent indicator to the scorer: every key
\* missing from day_data is replaced by its default (daily_chance_of_rain 0,
\* avghumidity 50, totalprecip_mm 0, cloud 50, pressure_mb 1013), so
\* predict(d) equals predict(d completed with the defaults) and
\* calculate_rain_score receives all five indicators; predict({}) returns
\* will_rain false, probability 11.0, confidence High, 90.
C18_PredictDefaults ==
    pred_outcome = "returned" =>
        LET full == Completed(day_data)
            wp   == [k \in Indicators |-> full[DayKey[k]]]
        IN  /\ DOMAIN predict_params(day_data) = Indicators
            /\ predict_params(day_data) = wp
            /\ rain_probability = calculate_rain_score(weights, wp)
            /\ result = predict(weights, full)
            /\ day_data = EmptyDict =>
                  result = [will_rain |-> FALSE, confidence |-> "High",
                            probability |-> Pct(11), confidence_percent |-> 90]

\* predict({}) has returned
C18_Witness ==
    /\ pred_outcome = "returned"
    /\ day_data = EmptyDict
    /\ result.probability = Pct(11)
    /\ result.confidence = "High"

----------------------------------------------------------------------------
(* Properties of the routes, checked under Spec *)

\* the request being handled is a GET /predict-rain without a city: the
\* parameter is absent or empty
NoCityRequest == request.route = "/predict-rain" /\ ~Truthy(request.city)

\* C19: a GET /predict-rain without a city parameter (absent or empty) is
\* answered with status 400 and the error 'city parameter required', and no
\* upstream request is issued for it, before or after that response.
C19_NoCityNoFetch ==
    NoCityRequest =>
        /\ pc = "done"
        /\ response.status = 400
        /\ response.body = "city parameter required"
        /\ fetches = 0
        /\ upstream = "none"

\* GET /predict-rain?city= (an empty city) has been answered
C19_Witness ==
    /\ request.route = "/predict-rain"
    /\ request.city = <<"">>
    /\ pc = "done"
    /\ response.status = 400

\* the request being handled is a GET /predict-rain with a city
CityRequest == request.route = "/predict-rain" /\ Truthy(request.city)

\* the status the claim gives for the way the request went: the outcome of
\* the fetch and, after a good fetch, whether the loop over the days ended
\* or stopped at a day with an empty hourly list
C20_Status ==
    CASE upstream = "timeout" -> 504
      [] upstream = "status" -> 400
      [] upstream = "exception" -> 500
      [] upstream = "ok" ->
           (IF forecast_days # <<>> /\ Head(forecast_days).hour = <<>>
            THEN 500 ELSE 200)
      [] OTHER -> 0

\* before the fetch nothing is sent; after it exactly one fetch was made;
\* the response has the status of C20_Status, with the predictions on 200
C20_OneFetchThenStatus ==
    CityRequest =>
        /\ pc \in {"fetch", "days", "done"}
        /\ pc = "fetch" => (fetches = 0 /\ upstream = "none" /\ response = NoResponse)
        /\ pc = "days" => (fetches = 1 /\ upstream = "ok" /\ response = NoResponse)
        /\ pc = "done" =>
              /\ fetches = 1
              /\ response.status = C20_Status
              /\ response.status = 200 =>
                    (response.body = "predictions" /\ forecast_days = <<>>)
        \* the handler is never stuck before its response
        /\ pc # "done" =>
              ENABLED (predict_rain_fetch \/ predict_rain_day \/ predict_rain_finish)

\* every step of the handler brings the response nearer: the fetch leads
\* to the loop or to a response, an iteration of the loop to a response or
\* to a shorter list of days; once the response is sent, it and the number
\* of fetches stay as they are until the next request arrives (which starts
\* with fetches' = 0)
C20_StepsToOneResponse ==
    /\ (CityRequest /\ pc = "fetch") => pc' \in {"days", "done"}
    /\ (CityRequest /\ pc = "days") =>
          (pc' = "done" \/ Len(forecast_days') < Len(forecast_days))
    /\ (CityRequest /\ pc = "done") =>
          (UNCHANGED <<response, fetches>> \/ fetches' = 0)

\* C20: every GET /predict-rain with a city ends with exactly one response,
\* sent after exactly one upstream fetch attempt (no retry): 504 if the
\* fetch times out, 400 if the upstream status is not 200, 500 if any other
\* exception occurs while fetching or processing (a forecast day with an
\* empty hourly list included), 200 with the predictions otherwise.  That
\* the request ends is stated as: the handler can always take a step before
\* its response, and each step shortens what is left to do.
C20_OneFetchOneResponse ==
    /\ []C20_OneFetchThenStatus
    /\ [][C20_StepsToOneResponse]_vars

\* a request with a city was answered 500 at a day with an empty hourly
\* list, after one fetch and one scored day
C20_Witness ==
    /\ CityRequest /\ pc = "done"
    /\ upstream = "ok" /\ fetches = 1
    /\ response.status = 500
    /\ Len(predictions) = 1
    /\ forecast_days # <<>> /\ Head(forecast_days).hour = <<>>

----------------------------------------------------------------------------
(* Properties of concurrent calls, checked under SpecConcurrent *)

\* every call that has returned returned what the same call returns when
\* it runs alone on the instance as constructed
C16_ResultAsAlone ==
    \A t \in Threads :
        threads[t].pc = "returned" =>
          /\ threads[t].fn = "predict" =>
                threads[t].result = predict(InitWeights, threads[t].day_data)
          /\ threads[t].fn = "pm25_to_aqi" =>
                threads[t].aqi = pm25_to_aqi(threads[t].pm25)

\* a step writes nothing that another call reads: the shared weights stay
\* as they are and at most one thread's call changes
C16_NoSharedWrite ==
    /\ weights' = weights
    /\ \A t \in Threads, u \in Threads :
          (t # u /\ threads'[t] # threads[t]) => threads'[u] = threads[u]

\* C16: invocations of the scoring and conversion functions are
\* independent: with concurrent requests against the shared rain_model and
\* aqi_converter, under every interleaving each call returns the result it
\* returns when run alone on the same input, and no call writes any state
\* that another call reads.
C16_CallsIndependent ==
    /\ []C16_ResultAsAlone
    /\ [][C16_NoSharedWrite]_vars

\* thread 1's predict has returned for the wet day while thread 2's
\* predict of another day is between two appends
C16_Witness ==
    /\ threads[1].pc = "returned" /\ threads[1].fn = "predict"
    /\ threads[1].result.probability = Pct(100)
    /\ threads[2].pc = "scoring" /\ threads[2].i = 3
    /\ threads[2].day_data = EmptyDict

----------------------------------------------------------------------------
(* Further properties of the routes, checked under Spec *)

\* the request being handled is a GET /rain-forecast
ForecastRequest == request.route = "/rain-forecast"

\* lat and lon are both given and not empty
BothCoordinates == Truthy(request.lat) /\ Truthy(request.lon)

\* none of city, lat and lon is given (or each is empty)
NoLocation ==
    ~Truthy(request.city) /\ ~Truthy(request.lat) /\ ~Truthy(request.lon)

\* C21: GET /rain-forecast chooses its action from the request parameters:
\* with city, lat and lon all absent it returns the location-detection page
\* and issues no upstream fetch; with lat and lon both present the upstream
\* query is 'lat,lon' even if a city is also given; in every other case the
\* query is the city parameter, so a request carrying a city or both
\* coordinates never queries upstream with an absent query value.
C21_ForecastQuery ==
    ForecastRequest =>
        /\ NoLocation =>
              /\ pc = "done"
              /\ response.status = 200 /\ response.body = "location page"
              /\ fetches = 0 /\ upstream = "none"
        /\ BothCoordinates =>
              query = <<request.lat[1], ",", request.lon[1]>>
        /\ (~NoLocation /\ ~BothCoordinates) => query = request.city
        /\ (Truthy(request.city) \/ BothCoordinates) => Truthy(query)
        /\ fetches > 0 => ~NoLocation

\* a request with a city and both coordinates has fetched with 'lat,lon'
C21_Witness ==
    /\ ForecastRequest
    /\ request.city = <<"Chennai">>
    /\ BothCoordinates
    /\ fetches = 1
    /\ query = <<"13.08", ",", "80.27">>

\* the request being handled is a GET /predict-rain whose fetch succeeded:
\* it is in its per-day loop or past it
InPredictRainLoop ==
    /\ request.route = "/predict-rain"
    /\ upstream = "ok"
    /\ pc \in {"days", "done"}

\* the largest element of a finite set of numbers
SetMax(S) == CHOOSE m \in S : \A x \in S : x <= m

\* the daily probabilities of the days processed so far
DailyProbabilities == {predictions[i].rain_prob : i \in 1..Len(predictions)}

\* some day processed so far has will_rain = true
SomeDayRains == \E i \in 1..Len(predictions) : predictions[i].will_rain

RECURSIVE CountRainDays(_)
\* the number of days of preds with will_rain = true
CountRainDays(preds) ==
    IF preds = <<>> THEN 0
    ELSE (IF Head(preds).will_rain THEN 1 ELSE 0) + CountRainDays(Tail(preds))

\* C22: in the per-day loop of /predict-rain, after each processed day
\* overall_will_rain is the disjunction of will_rain over the days processed
\* so far and max_rain_prob the maximum of 0 and their rain probabilities;
\* at the end the summary's will_rain flag is true iff at least one day has
\* will_rain = true, max_rain_probability is the largest daily probability
\* and days_with_rain counts exactly the days with will_rain = true.
C22_LoopAccumulators ==
    InPredictRainLoop =>
        /\ overall_will_rain <=> SomeDayRains
        /\ max_rain_prob = SetMax({0} \cup DailyProbabilities)
        /\ (pc = "done" /\ response.status = 200) =>
              /\ response.will_rain <=> SomeDayRains
              /\ response.max_rain_probability = SetMax({0} \cup DailyProbabilities)
              /\ predictions # <<>> =>
                    response.max_rain_probability = SetMax(DailyProbabilities)
              /\ response.days_with_rain = CountRainDays(predictions)

\* /predict-rain has answered for three days of which the first has the
\* largest probability and the last does not rain
C22_Witness ==
    /\ InPredictRainLoop /\ pc = "done" /\ response.status = 200
    /\ Len(predictions) = 3
    /\ predictions[1].rain_prob = Pct(100)
    /\ predictions[2].rain_prob < Pct(100) /\ predictions[2].will_rain
    /\ ~predictions[3].will_rain
    /\ response.days_with_rain = 2

----------------------------------------------------------------------------
(* Further properties of predict, checked under SpecRain *)

\* C23: the values reported together by predict agree with each other:
\* the tier rule (High iff p >= 80 or p <= 20, else Medium iff p >= 65 or
\* p <= 35, else Low) applied to the returned probability, rounded to one
\* decimal, yields the returned confidence label and percent.
C23_TierOfReturnedProbability ==
    pred_outcome = "returned" =>
        LET p == result.probability
            label == IF p >= Pct(80) \/ p <= Pct(20) THEN "High"
                     ELSE IF p >= Pct(65) \/ p <= Pct(35) THEN "Medium"
                     ELSE "Low"
            percent == IF label = "High" THEN 90
                       ELSE IF label = "Medium" THEN 70 ELSE 50
        IN  /\ result.confidence = label
            /\ result.confidence_percent = percent

----------------------------------------------------------------------------
(* Further properties of the converter, checked under SpecAqi *)

\* C24: for every pm25 with 0 <= pm25 <= 500.4, the values strictly between
\* one bracket's upper bound and the next bracket's lower bound included,
\* pm25_to_aqi returns no more than the next bracket's aqi_low; 500 as the
\* no-bracket fallback is returned only above 500.4, so a pm25 of at most
\* 250.4 never yields an AQI above 300 or the category Hazardous.
C24_NoFallbackBelowTable ==
    \A c \in {aqi_call, aqi_prev} :
        (/\ c.called /\ c.pm25 # None
         /\ 0 <= Num(c.pm25) /\ Num(c.pm25) <= 50040) =>
          /\ \A i \in 1..(Len(breakpoints) - 1) :
                Num(c.pm25) < breakpoints[i + 1][1] =>
                    c.aqi <= breakpoints[i + 1][3]
          /\ Num(c.pm25) <= 25040 =>
                (c.aqi <= 300 /\ aqi_to_category(c.aqi) # "Hazardous")

----------------------------------------------------------------------------
(* Properties of the forecast summary, checked under Spec *)

\* a forecast response has been sent: the JSON of /predict-rain or the
\* page of /rain-forecast
ForecastAnswered ==
    /\ pc = "done"
    /\ response.status = 200
    /\ response.body \in {"predictions", "forecast page"}

\* C25: the summary of a forecast response is self-consistent:
\* overall_will_rain is true iff max_rain_prob >= 50, so the recommendation
\* 'Low chance of rain' is given exactly when no day is predicted to rain
\* and a 'Moderate' or 'High chance of rain' recommendation exactly when at
\* least one day has will_rain = true.
C25_SummaryConsistent ==
    ForecastAnswered =>
        /\ response.will_rain <=> (response.max_rain_probability >= Pct(50))
        /\ response.recommendation = "Low" <=> ~SomeDayRains
        /\ response.recommendation \in {"Moderate", "High"} <=> SomeDayRains

\* C26: whenever a day is predicted with will_rain = true, its rain
\* intensity (Heavy above 10 mm, Moderate above 2.5, Light above 0, None
\* otherwise) is not 'None'; the card's '<intensity> Rain Expected' banner,
\* shown exactly for the days with will_rain = true, never reads
\* 'None Rain Expected'.
C26_NoNoneRainExpected ==
    \A i \in 1..Len(predictions) :
        /\ predictions[i].will_rain => predictions[i].intensity # "None"
        /\ banner_of(predictions[i]) # <<>> <=> predictions[i].will_rain
        /\ banner_of(predictions[i]) # <<"None", "Rain Expected">>

----------------------------------------------------------------------------
(* Properties of the two forecast handlers, checked under SpecEquiv *)

\* the recommendation tier with the thresholds the claim gives
TierByThresholds(max_prob) ==
    IF max_prob >= Pct(70) THEN "High"
    ELSE IF max_prob >= Pct(50) THEN "Moderate"
    ELSE "Low"

\* what a summary holds of day i: (will_rain, probability, confidence,
\* confidence_percent, intensity)
DayTuple(summary, i) ==
    LET e == summary.predictions[i]
    IN  <<e.will_rain, e.rain_prob, e.confidence, e.conf_percent, e.intensity>>

\* C27: /predict-rain and /rain-forecast are equivalent on the same upstream
\* forecast data: for every list of forecast days they compute the same
\* per-day (will_rain, probability, confidence, confidence_percent,
\* intensity), the same overall_will_rain and max_rain_prob, and select the
\* recommendation tier with the same thresholds (max >= 70, max >= 50,
\* otherwise).
C27_HandlersEquivalent ==
    (equiv.json.ran /\ equiv.page.ran) =>
        /\ equiv.json.error = equiv.page.error
        /\ Len(equiv.json.predictions) = Len(equiv.page.predictions)
        /\ \A i \in 1..Len(equiv.json.predictions) :
              DayTuple(equiv.json, i) = DayTuple(equiv.page, i)
        /\ equiv.json.overall_will_rain = equiv.page.overall_will_rain
        /\ equiv.json.max_rain_prob = equiv.page.max_rain_prob
        /\ ~equiv.json.error =>
              /\ equiv.json.recommendation = TierByThresholds(equiv.json.max_rain_prob)
              /\ equiv.page.recommendation = TierByThresholds(equiv.page.max_rain_prob)

\* both handlers have processed three days whose largest probability is
\* exactly 50.0
C27_Witness ==
    /\ equiv.json.ran /\ equiv.page.ran
    /\ ~equiv.json.error
    /\ Len(equiv.days) = 3
    /\ Len(equiv.page.predictions) = 3
    /\ equiv.page.max_rain_prob = Pct(50)
    /\ equiv.page.recommendation = "Moderate"

----------------------------------------------------------------------------
(* Bounds and monotonicity of the score, checked under SpecRain *)

\* predict's argument has every supplied value inside its range
ValidDay == ValidSample(predict_params(day_data))

\* C28: through predict with every supplied value inside its range
\* (chance_of_rain, humidity, cloud in [0,100], precipitation >= 0) the
\* unrounded score is between 8 and 100, so the clamp to [0,100] never
\* changes the weighted sum, a probability of 0 is unreachable, and each
\* indicator's sub-score is within [0,100].
C28_ScoreBetween8And100 ==
    (pred_outcome = "returned" /\ ValidDay) =>
        LET wp == predict_params(day_data)
        IN  /\ rain_probability >= Pct(8)
            /\ rain_probability <= Pct(100)
            /\ rain_probability = total_score(weights, wp)
            /\ result.probability # 0
            /\ \A k \in Indicators :
                  /\ sub_score(k, Num(wp[k])) >= 0
                  /\ sub_score(k, Num(wp[k])) <= Hd(100)

\* predict has returned the lowest score, 8.0: no chance of rain, humidity
\* 60, no precipitation, cloud 50, pressure 1015
C28_Witness ==
    /\ pred_outcome = "returned" /\ ValidDay
    /\ DOMAIN day_data = {DayKey[k] : k \in Indicators}
    /\ rain_probability = Pct(8)
    /\ result.probability = Pct(8)

\* the values an indicator is given in the samples
IndicatorValues ==
    [chance_of_rain |-> ChanceValues, humidity |-> HumidityValues,
     precipitation |-> PrecipValues, cloud_cover |-> CloudValues,
     pressure |-> PressureValues]

\* the indicators whose increase speaks for rain
RainIndicators == Indicators \ {"pressure"}

\* sample wp with indicator k set to v
WithValue(wp, k, v) == [wp EXCEPT ![k] = v]

\* C29: the rain score is monotone in each indicator with the other four
\* held fixed: raising chance_of_rain, humidity, precipitation or
\* cloud_cover never lowers the score and raising pressure never raises it;
\* so will_rain never flips from true to false when only one of the first
\* four indicators is increased.
C29_ScoreMonotone ==
    /\ calc_outcome = "returned" =>
          \A k \in DOMAIN weather_params :
          \A v \in IndicatorValues[k] :
              Num(v) >= Num(weather_params[k]) =>
                LET raised == calculate_rain_score(weights, WithValue(weather_params, k, v))
                IN  IF k = "pressure" THEN raised <= score ELSE raised >= score
    /\ (pred_outcome = "returned" /\ result.will_rain) =>
          \A k \in RainIndicators :
              DayKey[k] \in DOMAIN day_data =>
                \A v \in IndicatorValues[k] :
                    Num(v) >= Num(day_data[DayKey[k]]) =>
                        predict(weights, WithValue(day_data, DayKey[k], v)).will_rain

\* a full sample with humidity 70 was scored below 50, and the same sample
\* with humidity 85 scores 50 or more; with its pressure raised from 999 to
\* 1015 it scores less
C29_Witness ==
    /\ calc_outcome = "returned"
    /\ DOMAIN weather_params = Indicators
    /\ weather_params["humidity"] = <<Hd(70)>>
    /\ weather_params["pressure"] = <<Hd(999)>>
    /\ score < Pct(50)
    /\ calculate_rain_score(weights, WithValue(weather_params, "humidity", <<Hd(85)>>))
         >= Pct(50)
    /\ calculate_rain_score(weights, WithValue(weather_params, "pressure", <<Hd(1015)>>))
         < score

(***************************************************************************)
(* Air quality on the /rain-forecast page, checked under Spec               *)
(***************************************************************************)

\* the upstream response of a /rain-forecast request has been read
AirQualityRead ==
    /\ request.route = "/rain-forecast"
    /\ upstream = "ok"
    /\ pc \in {"days", "done"}

\* the air-quality values the page shows
AirOutputs(a) ==
    <<a.calculated_aqi, a.level, a.cigarettes_per_day, a.yearly_cigs>>

\* C30: when the upstream response of /rain-forecast carries no air-quality
\* data, pm25 defaults to 0 and the page reports AQI 0, category Good, 0
\* cigarettes per day and 0 per year, the outputs of a measured pm25 of 0;
\* the category shown is always aqi_to_category(pm25_to_aqi(pm25)) and the
\* yearly count is the already rounded per-day value times 365, as a whole
\* number.
C30_AirQualityDefaults ==
    AirQualityRead =>
        /\ "pm2_5" \notin DOMAIN air.aqi_data =>
              /\ air.pm25 = <<0>>
              /\ AirOutputs(air) = <<0, "Good", 0, 0>>
        /\ air.pm25 = <<0>> => AirOutputs(air) = <<0, "Good", 0, 0>>
        /\ air.level = aqi_to_category(pm25_to_aqi(air.pm25))
        /\ air.yearly_cigs = RoundHalfEven(air.cigarettes_per_day * 365, 10) \div 10

\* a page has been answered from a response without air-quality data
C30_Witness ==
    /\ AirQualityRead /\ pc = "done" /\ response.status = 200
    /\ air.aqi_data = EmptyDict
    /\ air.pm25 = <<0>> /\ air.level = "Good"

====
